---- MODULE Spec2Model ----
(***************************************************************************)
(* A model of File-Manager-Automater/agents.py: the file-organising agent  *)
(* that scans an input folder, classifies every file by extension, moves   *)
(* it into <output>/<category>/ and sends PDFs and images to a compression *)
(* service.                                                                *)
(*                                                                         *)
(* Strings (paths, extensions, method names) are sequences of one-letter   *)
(* strings, so that os.path.splitext, str.lower, os.path.join and          *)
(* os.path.basename are computed letter by letter as Python computes them. *)
(* The filesystem is a map from the paths of regular files to their        *)
(* content plus a set of directory paths; paths are relative, written      *)
(* without "." and ".." parts and without a trailing separator, so equal   *)
(* strings name the same file.                                             *)
(***************************************************************************)
EXTENDS Naturals, Sequences, FiniteSets

\* ------------------------------------------------------------------------
\* Bounds of the model
\* ------------------------------------------------------------------------

\* Longest stem put in front of an extension when classifying paths.
MaxStemLen == 2

\* Most regular files in the initial filesystem.
MaxFiles == 2

\* Most entries of the compression_method list.
MaxMethods == 1

\* ------------------------------------------------------------------------
\* String literals of agents.py
\* ------------------------------------------------------------------------

SEP == "/"

EXTSEP == "."

EXT_PDF == <<".", "p", "d", "f">>

EXT_PNG == <<".", "p", "n", "g">>

EXT_JPG == <<".", "j", "p", "g">>

EXT_JPEG == <<".", "j", "p", "e", "g">>

EXT_PY == <<".", "p", "y">>

EXT_JS == <<".", "j", "s">>

EXT_JAVA == <<".", "j", "a", "v", "a">>

EXT_C == <<".", "c">>

EXT_CPP == <<".", "c", "p", "p">>

CAT_PDFS == <<"P", "D", "F", "s">>

CAT_IMAGES == <<"I", "m", "a", "g", "e", "s">>

CAT_CODE == <<"C", "o", "d", "e">>

CAT_OTHERS == <<"O", "t", "h", "e", "r", "s">>

Categories == {CAT_PDFS, CAT_IMAGES, CAT_CODE, CAT_OTHERS}

DEFAULT_INPUT == <<"d", "a", "t", "a", "/", "i", "n", "p", "u", "t", "_", "f", "o", "l", "d", "e", "r">>

DEFAULT_OUTPUT == <<"d", "a", "t", "a", "/", "o", "u", "t", "p", "u", "t", "_", "f", "o", "l", "d", "e", "r">>

CONVERTAPI == <<"c", "o", "n", "v", "e", "r", "t", "a", "p", "i">>

TINYPNG == <<"t", "i", "n", "y", "p", "n", "g">>

\* ------------------------------------------------------------------------
\* str and os.path operations used by agents.py
\* ------------------------------------------------------------------------

UpperLetters == <<"A", "B", "C", "D", "E", "F", "G", "H", "I", "J", "K", "L", "M",
                  "N", "O", "P", "Q", "R", "S", "T", "U", "V", "W", "X", "Y", "Z">>

LowerLetters == <<"a", "b", "c", "d", "e", "f", "g", "h", "i", "j", "k", "l", "m",
                  "n", "o", "p", "q", "r", "s", "t", "u", "v", "w", "x", "y", "z">>

\* str.lower() on one letter: an upper-case letter maps to its lower-case
\* partner, every other character to itself.
LowerChar(c) ==
  IF \E k \in DOMAIN UpperLetters : UpperLetters[k] = c
  THEN LowerLetters[CHOOSE k \in DOMAIN UpperLetters : UpperLetters[k] = c]
  ELSE c

\* str.lower()
Lower(s) == [k \in DOMAIN s |-> LowerChar(s[k])]

\* str.upper() on one letter (used to build mixed-case inputs).
UpperChar(c) ==
  IF \E k \in DOMAIN LowerLetters : LowerLetters[k] = c
  THEN UpperLetters[CHOOSE k \in DOMAIN LowerLetters : LowerLetters[k] = c]
  ELSE c

\* str.rfind(ch): the last index of ch in s, 0 when absent (Python: -1;
\* indices here are 1-based).
RFind(s, ch) ==
  IF \E k \in DOMAIN s : s[k] = ch
  THEN CHOOSE k \in DOMAIN s : s[k] = ch /\ \A j \in DOMAIN s : j > k => s[j] # ch
  ELSE 0

\* s[k:] with a 1-based k
From(s, k) == SubSeq(s, k, Len(s))

\* os.path.splitext (genericpath._splitext): the extension starts at the
\* last dot after the last separator, unless only dots lie between the
\* separator and that dot (leading dots belong to the stem).
Splitext(p) ==
  LET sepIndex == RFind(p, SEP)
      dotIndex == RFind(p, EXTSEP)
  IN  IF dotIndex > sepIndex
         /\ \E k \in (sepIndex + 1)..(dotIndex - 1) : p[k] # EXTSEP
      THEN <<SubSeq(p, 1, dotIndex - 1), From(p, dotIndex)>>
      ELSE <<p, <<>>>>

\* os.path.basename
Basename(p) == From(p, RFind(p, SEP) + 1)

\* os.path.dirname for the relative, separator-normalised paths of the model
Dirname(p) == SubSeq(p, 1, RFind(p, SEP) - 1)

\* os.path.join(a, b)
Join(a, b) ==
  IF Len(b) > 0 /\ b[1] = SEP THEN b
  ELSE IF Len(a) = 0 \/ a[Len(a)] = SEP THEN a \o b
  ELSE a \o <<SEP>> \o b

\* ------------------------------------------------------------------------
\* Classification
\* ------------------------------------------------------------------------

\* get_file_category with the extension compared as written (no .lower()).
get_file_category_case_sensitive(file_path) ==
  LET ext == Splitext(file_path)[2]
  IN  IF ext = EXT_PDF THEN CAT_PDFS
      ELSE IF ext \in {EXT_PNG, EXT_JPG, EXT_JPEG} THEN CAT_IMAGES
      ELSE IF ext \in {EXT_PY, EXT_JS, EXT_JAVA, EXT_C, EXT_CPP} THEN CAT_CODE
      ELSE CAT_OTHERS

\* get_file_category with '.py' in the list of the first test.
get_file_category_py_as_pdf(file_path) ==
  LET ext == Lower(Splitext(file_path)[2])
  IN  IF ext \in {EXT_PDF, EXT_PY} THEN CAT_PDFS
      ELSE IF ext \in {EXT_PNG, EXT_JPG, EXT_JPEG} THEN CAT_IMAGES
      ELSE IF ext \in {EXT_JS, EXT_JAVA, EXT_C, EXT_CPP} THEN CAT_CODE
      ELSE CAT_OTHERS

get_file_category(file_path) ==
  LET ext == Lower(Splitext(file_path)[2])
  IN  IF ext = EXT_PDF THEN CAT_PDFS
      ELSE IF ext \in {EXT_PNG, EXT_JPG, EXT_JPEG} THEN CAT_IMAGES
      ELSE IF ext \in {EXT_PY, EXT_JS, EXT_JAVA, EXT_C, EXT_CPP} THEN CAT_CODE
      ELSE CAT_OTHERS

\* ------------------------------------------------------------------------
\* Values yaml.safe_load can return
\* ------------------------------------------------------------------------

\* A loaded document A (agentic_config.yml): its Python type and, for a
\* dict or a list, its entries as <<key, value>> pairs in document order.
\* load_config returns None for a missing or unparsable file (and
\* yaml.safe_load returns None for an empty one).
PyNone == [t |-> "none", m |-> <<>>]

PyDict(pairs) == [t |-> "dict", m |-> pairs]

PyList(items) == [t |-> "list", m |-> items]

\* bool(value): None, {} and [] are falsy.
Truthy(doc) == doc.t # "none" /\ Len(doc.m) > 0

\* dict.get(key, default) on the pairs of a dict
DictGet(pairs, key, default) ==
  IF \E k \in DOMAIN pairs : pairs[k][1] = key
  THEN pairs[CHOOSE k \in DOMAIN pairs :
               pairs[k][1] = key /\ \A j \in DOMAIN pairs : j < k => pairs[j][1] # key][2]
  ELSE default

\* One element of the compression_method list: a single-key mapping
\* {k: v}, or a scalar.
Entry(k, v) == [t |-> "dict", k |-> k, v |-> v]

ScalarItem == [t |-> "int", k |-> "", v |-> <<>>]

\* A loaded document B (file_manager_config.yml). For a dict: whether it has
\* the key compression_method and that key's value, None or a list (a dict
\* without that key holds some other key: the empty dict is not drawn).
\* For a top-level list: cm is the list itself.
FmNone == [t |-> "none", has_cm |-> FALSE, cm |-> [t |-> "none", items |-> <<>>]]

FmDict(has_cm, cm) == [t |-> "dict", has_cm |-> has_cm, cm |-> cm]

FmList(items) == [t |-> "list", has_cm |-> FALSE, cm |-> [t |-> "list", items |-> items]]

CmNone == [t |-> "none", items |-> <<>>]

CmList(items) == [t |-> "list", items |-> items]

FmTruthy(doc) ==
  CASE doc.t = "none" -> FALSE
    [] doc.t = "list" -> Len(doc.cm.items) > 0
    [] OTHER -> TRUE

\* A method name, or None.
NoMethod == [none |-> TRUE, s |-> <<>>]

Method(s) == [none |-> FALSE, s |-> s]

\* The result of evaluating an expression that may raise.
Raised(kind) == [raised |-> kind, value |-> NoMethod]

Returned(v) == [raised |-> "", value |-> v]

\* next((item.get(key) for item in items if key in item), None), items taken
\* from position k on: the generator stops at the first match, so a later
\* element is never looked at; `key in item` raises TypeError on an int.
RECURSIVE FirstMatch(_, _, _)
FirstMatch(items, key, k) ==
  IF k > Len(items) THEN Returned(NoMethod)
  ELSE IF items[k].t # "dict" THEN Raised("TypeError")
  ELSE IF items[k].k = key THEN Returned(Method(items[k].v))
  ELSE FirstMatch(items, key, k + 1)

\* The lookup with the key test dropped: the first entry's method is used
\* whatever its key.
LookupMethodAnyKey(file_manager_config, key) ==
  IF file_manager_config.t # "dict" THEN Raised("AttributeError")
  ELSE IF ~file_manager_config.has_cm THEN Returned(NoMethod)
  ELSE IF file_manager_config.cm.t # "list" THEN Raised("TypeError")
  ELSE IF Len(file_manager_config.cm.items) = 0 THEN Returned(NoMethod)
  ELSE IF file_manager_config.cm.items[1].t # "dict" THEN Raised("TypeError")
  ELSE Returned(Method(file_manager_config.cm.items[1].v))

\* next((item.get(key) for item in
\*       file_manager_config.get("compression_method", []) if key in item), None)
LookupMethod(file_manager_config, key) ==
  IF file_manager_config.t # "dict" THEN Raised("AttributeError")
  ELSE IF ~file_manager_config.has_cm THEN Returned(NoMethod)
  ELSE IF file_manager_config.cm.t # "list" THEN Raised("TypeError")
  ELSE FirstMatch(file_manager_config.cm.items, key, 1)

\* ------------------------------------------------------------------------
\* The filesystem
\* ------------------------------------------------------------------------

\* os.path.exists
Exists(fs_, dirs_, p) == p \in DOMAIN fs_ \/ p \in dirs_

\* The directories above p
Ancestors(p) == {SubSeq(p, 1, k - 1) : k \in {j \in DOMAIN p : p[j] = SEP}}

Remove(fs_, p) == [q \in DOMAIN fs_ \ {p} |-> fs_[q]]

Put(fs_, p, content) == [q \in DOMAIN fs_ \cup {p} |-> IF q = p THEN content ELSE fs_[q]]

\* os.makedirs(d, exist_ok=True): nothing to do for an existing directory;
\* FileExistsError when d is a regular file, NotADirectoryError when a
\* regular file lies on the way; otherwise d and its missing ancestors are
\* created, unless the environment refuses (env = "makedirs").
makedirs(fs_, dirs_, d, env) ==
  IF d \in dirs_ THEN [raised |-> "", dirs |-> dirs_]
  ELSE IF d \in DOMAIN fs_ THEN [raised |-> "FileExistsError", dirs |-> dirs_]
  ELSE IF Ancestors(d) \cap DOMAIN fs_ # {} THEN [raised |-> "NotADirectoryError", dirs |-> dirs_]
  ELSE IF env = "makedirs" THEN [raised |-> "PermissionError", dirs |-> dirs_]
  ELSE [raised |-> "", dirs |-> dirs_ \cup {d} \cup Ancestors(d)]

\* shutil.copy in place of shutil.move: the source stays.
shutil_move_copy(fs_, dirs_, src, dst, env) ==
  LET real_dst == IF dst \in dirs_ THEN Join(dst, Basename(src)) ELSE dst
  IN  IF dst \in dirs_ /\ Exists(fs_, dirs_, real_dst)
      THEN [raised |-> "shutil.Error", fs |-> fs_]
      ELSE IF src \notin DOMAIN fs_
      THEN [raised |-> "FileNotFoundError", fs |-> fs_]
      ELSE IF env \in {"rename", "unlink"}
      THEN [raised |-> "PermissionError", fs |-> fs_]
      ELSE [raised |-> "", fs |-> Put(fs_, real_dst, fs_[src])]

\* A move that refuses to replace an existing file.
shutil_move_no_overwrite(fs_, dirs_, src, dst, env) ==
  LET real_dst == IF dst \in dirs_ THEN Join(dst, Basename(src)) ELSE dst
  IN  IF Exists(fs_, dirs_, real_dst) /\ src # real_dst
      THEN [raised |-> "shutil.Error", fs |-> fs_]
      ELSE IF src \notin DOMAIN fs_
      THEN [raised |-> "FileNotFoundError", fs |-> fs_]
      ELSE IF env = "rename"
      THEN [raised |-> "PermissionError", fs |-> fs_]
      ELSE IF env = "unlink" /\ src # real_dst
      THEN [raised |-> "PermissionError", fs |-> Put(fs_, real_dst, fs_[src])]
      ELSE IF src = real_dst
      THEN [raised |-> "", fs |-> fs_]
      ELSE [raised |-> "", fs |-> Put(Remove(fs_, src), real_dst, fs_[src])]

\* shutil.move(src, dst) of a regular file. An existing directory dst
\* receives the file as dst/basename(src), shutil.Error if that exists.
\* os.rename replaces an existing regular file and does nothing when both
\* names are the same file. The environment can make the move fail with
\* nothing changed (env = "rename"), or make the copy of the fallback
\* succeed and the removal of the source fail (env = "unlink").
shutil_move(fs_, dirs_, src, dst, env) ==
  LET real_dst == IF dst \in dirs_ THEN Join(dst, Basename(src)) ELSE dst
  IN  IF dst \in dirs_ /\ Exists(fs_, dirs_, real_dst)
      THEN [raised |-> "shutil.Error", fs |-> fs_]
      ELSE IF src \notin DOMAIN fs_
      THEN [raised |-> "FileNotFoundError", fs |-> fs_]
      ELSE IF env = "rename"
      THEN [raised |-> "PermissionError", fs |-> fs_]
      ELSE IF env = "unlink" /\ src # real_dst
      THEN [raised |-> "PermissionError", fs |-> Put(fs_, real_dst, fs_[src])]
      ELSE IF src = real_dst
      THEN [raised |-> "", fs |-> fs_]
      ELSE [raised |-> "", fs |-> Put(Remove(fs_, src), real_dst, fs_[src])]

\* move_file_to_category: the filesystem after the call, the path it
\* returns, and the exception it raises (if any).
move_file_to_category(fs_, dirs_, file_path, base_output_folder, env) ==
  LET category_ == get_file_category(file_path)
      destination_folder == Join(base_output_folder, category_)
      made == makedirs(fs_, dirs_, destination_folder, env)
      new_path == Join(destination_folder, Basename(file_path))
      moved == shutil_move(fs_, made.dirs, file_path, new_path, env)
  IN  IF made.raised # ""
      THEN [raised |-> made.raised, fs |-> fs_, dirs |-> dirs_, new_file_path |-> <<>>]
      ELSE [raised |-> moved.raised, fs |-> moved.fs, dirs |-> made.dirs,
            new_file_path |-> IF moved.raised = "" THEN new_path ELSE <<>>]

\* All orderings of a finite set
Orderings(S) ==
  {s \in [1..Cardinality(S) -> S] : \A a, b \in 1..Cardinality(S) : a # b => s[a] # s[b]}

\* s1 \o s2 for every s1 of A and s2 of B
ConcatSets(A, B) == {a \o b : a \in A, b \in B}

\* os.walk(top), top-down: the files of a directory (os.path.join(root,
\* filename), in the order the directory lists them, which is arbitrary),
\* then each subdirectory's walk, the subdirectories in arbitrary order.
\* A top that is no directory yields nothing.
RECURSIVE WalkFrom(_, _, _)
RECURSIVE WalkAll(_, _, _, _)
WalkAll(fs_, dirs_, order, k) ==
  IF k > Len(order) THEN {<<>>}
  ELSE ConcatSets(WalkFrom(fs_, dirs_, order[k]), WalkAll(fs_, dirs_, order, k + 1))

WalkFrom(fs_, dirs_, top) ==
  IF top \notin dirs_ THEN {<<>>}
  ELSE LET filenames == {p \in DOMAIN fs_ : Dirname(p) = top}
           subdirs == {d \in dirs_ : Dirname(d) = top /\ d # top}
       IN  UNION {ConcatSets(Orderings(filenames), WalkAll(fs_, dirs_, order, 1)) :
                    order \in Orderings(subdirs)}

\* scan_folder: the lists it can return
scan_folder(fs_, dirs_, folder_path) == WalkFrom(fs_, dirs_, folder_path)

\* ------------------------------------------------------------------------
\* The environment the runs are drawn from
\* ------------------------------------------------------------------------

DATA == <<"d", "a", "t", "a">>

A_PDF == <<"a", ".", "p", "d", "f">>

ZIP == <<"z", "i", "p">>

TINYPNG_MIXED == <<"T", "i", "n", "y", "P", "N", "G">>

\* Files the initial filesystem can hold: below data/input_folder a PDF, a
\* PDF of the same name one directory down, a PNG with an upper-case
\* extension, a JPG and a Python source; and a PDF already in the default
\* output folder.
CandidateFiles ==
  << Join(DEFAULT_INPUT, A_PDF),
     Join(Join(DEFAULT_INPUT, <<"s">>), A_PDF),
     Join(DEFAULT_INPUT, <<"b", ".", "P", "N", "G">>),
     Join(DEFAULT_INPUT, <<"c", ".", "j", "p", "g">>),
     Join(DEFAULT_INPUT, <<"m", ".", "p", "y">>),
     Join(Join(DEFAULT_OUTPUT, CAT_PDFS), A_PDF) >>

\* A directory the initial filesystem can hold at the path a PDF is moved to.
CandidateDir == Join(Join(DEFAULT_OUTPUT, CAT_PDFS), A_PDF)

\* The content of a file: the identity of its bytes, and whether the
\* image service has rewritten them.
Content(id) == [id |-> id, tiny |-> FALSE]

\* The initial filesystems: at most MaxFiles entries (candidate files, each
\* with its own content, and the candidate directory), and the
\* directories above them.
InitialFilesystems ==
  LET Picks == {S \in SUBSET (1..Len(CandidateFiles)) : Cardinality(S) <= MaxFiles}
      Paths(S) == {CandidateFiles[k] : k \in S}
      Idx(p) == CHOOSE k \in 1..Len(CandidateFiles) : CandidateFiles[k] = p
      Files(S) == [p \in Paths(S) |-> Content(Idx(p))]
      Above(P) == UNION {Ancestors(p) : p \in P}
  IN  {[fs |-> Files(S), dirs |-> Above(Paths(S))] : S \in Picks}
      \cup {[fs |-> Files(S), dirs |-> Above(Paths(S) \cup {CandidateDir}) \cup {CandidateDir}] :
              S \in {T \in Picks : Cardinality(T) < MaxFiles /\ CandidateDir \notin Paths(T)}}

\* Documents agentic_config.yml can load to: None (missing, unparsable or
\* empty), a list, the empty mapping, and mappings that leave both paths to
\* their defaults, put the output folder on the input folder, or scan data/
\* (which holds the default output folder).
AgentDocuments ==
  { PyNone,
    PyList(<< <<"input_folder_path", DEFAULT_INPUT>> >>),
    PyDict(<<>>),
    PyDict(<< <<"name", DATA>> >>),
    PyDict(<< <<"input_folder_path", DEFAULT_INPUT>>, <<"output_folder_path", DEFAULT_INPUT>> >>),
    PyDict(<< <<"input_folder_path", DATA>> >>) }

\* Elements of a compression_method list
MethodItems == {Entry("PDF", CONVERTAPI), Entry("JPG", ZIP), Entry("PNG", TINYPNG_MIXED)}

MethodLists == UNION {[1..n -> MethodItems] : n \in 0..MaxMethods}

\* Documents file_manager_config.yml can load to: None, a top-level list, a
\* mapping without compression_method, one whose compression_method is
\* null, one whose compression_method is a list of a number, and mappings
\* whose compression_method is a list of single-key mappings.
FileManagerDocuments ==
  { FmNone, FmList(<<Entry("PDF", CONVERTAPI)>>), FmDict(FALSE, CmNone), FmDict(TRUE, CmNone),
    FmDict(TRUE, CmList(<<ScalarItem>>)) }
  \cup {FmDict(TRUE, CmList(items)) : items \in MethodLists}

\* Outcomes the environment can give a move: none, a refusal to create the
\* category folder, a move that fails with nothing done, a cross-device
\* move whose copy succeeds and whose removal of the source fails.
MoveEnvs == {"ok", "makedirs", "rename", "unlink"}

\* Outcomes of the HTTP POST of compress_pdf: status 200, another status,
\* an exception of the requests library.
PostEnvs == {"200", "500", "network"}

\* Outcomes of the tinify calls of compress_image: success, tinify not
\* installed, an exception of the client.
TinifyEnvs == {"ok", "import_error", "client_fault"}

\* ------------------------------------------------------------------------
\* State
\* ------------------------------------------------------------------------

VARIABLES
  yml_agent,            \* what load_config("agentic_config.yml") returns
  yml_file_manager,     \* what load_config("file_manager_config.yml") returns
  fs,                   \* regular files: path -> content
  dirs,                 \* directories
  fs0,                  \* the regular files when the run started
  dirs0,                \* the directories when the run started
  pc,                   \* position in main()
  agent_config,         \* main's locals
  file_manager_config,
  input_folder,
  output_folder,
  files,
  i,                    \* position of file_path in files
  new_file_path,
  category,
  compression_func,
  compress_method,
  exception,            \* the exception that ended the run, "" if none
  trace,                \* console lines and calls so far, in order
  arg_path,             \* classification alone: the argument
  ret_category          \* classification alone: the result

vars == <<yml_agent, yml_file_manager, fs, dirs, fs0, dirs0, pc, agent_config,
          file_manager_config, input_folder, output_folder, files, i, new_file_path,
          category, compression_func, compress_method, exception, trace,
          arg_path, ret_category>>

env_vars == <<yml_agent, yml_file_manager, fs0, dirs0, arg_path, ret_category>>

config_vars == <<agent_config, file_manager_config, input_folder, output_folder>>

file_vars == <<new_file_path, category, compression_func, compress_method>>

Unloaded == [t |-> "unloaded", m |-> <<>>]

FmUnloaded == [t |-> "unloaded", has_cm |-> FALSE, cm |-> CmNone]

Init ==
  /\ yml_agent \in AgentDocuments
  /\ yml_file_manager \in FileManagerDocuments
  /\ \E init \in InitialFilesystems :
       /\ fs = init.fs
       /\ dirs = init.dirs
       /\ fs0 = init.fs
       /\ dirs0 = init.dirs
  /\ pc = "load"
  /\ agent_config = Unloaded
  /\ file_manager_config = FmUnloaded
  /\ input_folder = <<>>
  /\ output_folder = <<>>
  /\ files = <<>>
  /\ i = 0
  /\ new_file_path = <<>>
  /\ category = <<>>
  /\ compression_func = "None"
  /\ compress_method = NoMethod
  /\ exception = ""
  /\ trace = <<>>
  /\ arg_path = <<>>
  /\ ret_category = <<>>

\* ------------------------------------------------------------------------
\* Compression
\* ------------------------------------------------------------------------

\* select_compression_function
select_compression_function(category_) ==
  IF category_ = CAT_PDFS THEN "compress_pdf"
  ELSE IF category_ = CAT_IMAGES THEN "compress_image"
  ELSE "None"

\* compress_pdf(file_path, method) under an outcome of the POST: what it
\* returns or raises, and what it prints. open() raises when file_path is
\* no regular file; requests.post is called outside any try.
compress_pdf(fs_, file_path, method, post) ==
  IF Lower(method) = CONVERTAPI
  THEN IF file_path \notin DOMAIN fs_
       THEN [raised |-> "OSError", ok |-> FALSE, line |-> "", fs |-> fs_]
       ELSE IF post = "network"
       THEN [raised |-> "RequestException", ok |-> FALSE, line |-> "", fs |-> fs_]
       ELSE IF post = "200"
       THEN [raised |-> "", ok |-> TRUE, line |-> "compression successful", fs |-> fs_]
       ELSE [raised |-> "", ok |-> FALSE, line |-> "compression failed", fs |-> fs_]
  ELSE [raised |-> "", ok |-> FALSE, line |-> "unsupported method", fs |-> fs_]

\* compress_image(file_path, method) under an outcome of the tinify calls:
\* the import and the two client calls are each inside a try; a success
\* rewrites the file in place.
compress_image(fs_, file_path, method, tinify) ==
  IF Lower(method) = TINYPNG
  THEN IF tinify = "import_error"
       THEN [raised |-> "", ok |-> FALSE, line |-> "tinify not installed", fs |-> fs_]
       ELSE IF tinify = "client_fault" \/ file_path \notin DOMAIN fs_
       THEN [raised |-> "", ok |-> FALSE, line |-> "compression failed", fs |-> fs_]
       ELSE [raised |-> "", ok |-> TRUE, line |-> "compression successful",
             fs |-> Put(fs_, file_path, [fs_[file_path] EXCEPT !.tiny = TRUE])]
  ELSE [raised |-> "", ok |-> FALSE, line |-> "unsupported method", fs |-> fs_]

\* The method main() resolves for a file of a compressible category
\* (lines 332-352).
resolve_method(file_manager_config_, category_, path) ==
  LET ext == Lower(Splitext(path)[2])
  IN  IF category_ = CAT_PDFS THEN LookupMethod(file_manager_config_, "PDF")
      ELSE IF category_ = CAT_IMAGES
      THEN IF ext \in {EXT_JPG, EXT_JPEG} THEN LookupMethod(file_manager_config_, "JPG")
           ELSE IF ext = EXT_PNG THEN LookupMethod(file_manager_config_, "PNG")
           ELSE Returned(NoMethod)
      ELSE Returned(NoMethod)

\* ------------------------------------------------------------------------
\* main()
\* ------------------------------------------------------------------------

Event(ev) == [ev |-> ev, i |-> i]

Say(ev) == trace' = Append(trace, Event(ev))

\* An exception nobody catches ends the run.
Raise(kind) ==
  /\ pc' = "crashed"
  /\ exception' = kind

file_path == files[i]

\* Lines 305-309: both documents are loaded; a falsy one ends the run.
LoadConfig ==
  /\ pc = "load"
  /\ agent_config' = yml_agent
  /\ file_manager_config' = yml_file_manager
  /\ IF ~Truthy(yml_agent) \/ ~FmTruthy(yml_file_manager)
     THEN /\ pc' = "exited"
          /\ Say("Configuration files are missing or invalid. Exiting.")
     ELSE /\ pc' = "paths"
          /\ UNCHANGED trace
  /\ UNCHANGED <<env_vars, fs, dirs, input_folder, output_folder, files, i, file_vars, exception>>

\* Lines 312-313: .get on the first document (AttributeError on a list).
GetPaths ==
  /\ pc = "paths"
  /\ IF agent_config.t # "dict"
     THEN /\ Raise("AttributeError")
          /\ UNCHANGED <<input_folder, output_folder>>
     ELSE /\ input_folder' = DictGet(agent_config.m, "input_folder_path", DEFAULT_INPUT)
          /\ output_folder' = DictGet(agent_config.m, "output_folder_path", DEFAULT_OUTPUT)
          /\ pc' = "scan"
          /\ UNCHANGED exception
  /\ UNCHANGED <<env_vars, fs, dirs, agent_config, file_manager_config, files, i, file_vars, trace>>

\* Line 316-317: one scan, then the loop over its result.
Scan ==
  /\ pc = "scan"
  /\ files' \in scan_folder(fs, dirs, input_folder)
  /\ i' = 1
  /\ pc' = IF files' = <<>> THEN "complete" ELSE "size_original"
  /\ UNCHANGED <<env_vars, fs, dirs, config_vars, file_vars, exception, trace>>

\* Lines 319-320: get_file_size(file_path) raises when the path is gone.
SizeOriginal ==
  /\ pc = "size_original"
  /\ IF Exists(fs, dirs, file_path)
     THEN /\ pc' = "move"
          /\ Say("Original size")
          /\ UNCHANGED exception
     ELSE /\ Raise("FileNotFoundError")
          /\ UNCHANGED trace
  /\ UNCHANGED <<env_vars, fs, dirs, config_vars, files, i, file_vars>>

\* The move inside a try whose handler records the exception and goes on
\* with the next file.
Move_catch_and_continue ==
  /\ pc = "move"
  /\ \E env \in MoveEnvs :
       LET r == move_file_to_category(fs, dirs, file_path, output_folder, env)
       IN  /\ fs' = r.fs
           /\ dirs' = r.dirs
           /\ new_file_path' = r.new_file_path
           /\ exception' = r.raised
           /\ IF r.raised # ""
              THEN /\ pc' = "blank"
                   /\ UNCHANGED trace
              ELSE /\ pc' = "size_moved"
                   /\ Say("Moved")
  /\ UNCHANGED <<env_vars, config_vars, files, i, category, compression_func, compress_method>>

\* Line 323: move_file_to_category(file_path, output_folder).
Move ==
  /\ pc = "move"
  /\ \E env \in MoveEnvs :
       LET r == move_file_to_category(fs, dirs, file_path, output_folder, env)
       IN  /\ fs' = r.fs
           /\ dirs' = r.dirs
           /\ new_file_path' = r.new_file_path
           /\ IF r.raised # ""
              THEN /\ Raise(r.raised)
                   /\ UNCHANGED trace
              ELSE /\ pc' = "size_moved"
                   /\ Say("Moved")
                   /\ UNCHANGED exception
  /\ UNCHANGED <<env_vars, config_vars, files, i, category, compression_func, compress_method>>

\* Lines 324-325: get_file_size(new_file_path).
SizeMoved ==
  /\ pc = "size_moved"
  /\ IF Exists(fs, dirs, new_file_path)
     THEN /\ pc' = "select"
          /\ Say("Size after moving")
          /\ UNCHANGED exception
     ELSE /\ Raise("FileNotFoundError")
          /\ UNCHANGED trace
  /\ UNCHANGED <<env_vars, fs, dirs, config_vars, files, i, file_vars>>

\* Lines 328-330: the category of the new path and its compression function.
Select ==
  /\ pc = "select"
  /\ category' = get_file_category(new_file_path)
  /\ compression_func' = select_compression_function(category')
  /\ Say("Decision")
  /\ pc' = IF compression_func' = "None" THEN "blank" ELSE "method"
  /\ UNCHANGED <<env_vars, fs, dirs, config_vars, files, i, new_file_path, compress_method, exception>>

\* Lines 332-352: the method configured for the file's subtype.
ResolveMethod ==
  /\ pc = "method"
  /\ LET r == resolve_method(file_manager_config, category, new_file_path)
     IN  IF r.raised # ""
         THEN /\ Raise(r.raised)
              /\ UNCHANGED compress_method
         ELSE /\ compress_method' = r.value
              /\ pc' = "compress"
              /\ UNCHANGED exception
  /\ UNCHANGED <<env_vars, fs, dirs, config_vars, files, i, new_file_path, category,
                 compression_func, trace>>

\* Line 355, no method: the call is skipped.
SkipCompression ==
  /\ pc = "compress"
  /\ compress_method.none
  /\ pc' = "blank"
  /\ UNCHANGED <<env_vars, fs, dirs, config_vars, files, i, file_vars, exception, trace>>

\* What one call of a compression function does to main(): the call is
\* recorded, then it raises, or prints its line and returns.
Called(func, r) ==
  /\ fs' = r.fs
  /\ IF r.raised # ""
     THEN /\ Raise(r.raised)
          /\ trace' = Append(trace, Event(func))
     ELSE /\ pc' = IF r.ok THEN "size_compressed" ELSE "blank"
          /\ trace' = trace \o <<Event(func), Event(r.line)>>
          /\ UNCHANGED exception

\* Line 355: compression_func(new_file_path, compress_method) for a PDF.
CompressPdf ==
  /\ pc = "compress"
  /\ ~compress_method.none
  /\ compression_func = "compress_pdf"
  /\ \E post \in PostEnvs :
       Called("compress_pdf", compress_pdf(fs, new_file_path, compress_method.s, post))
  /\ UNCHANGED <<env_vars, dirs, config_vars, files, i, file_vars>>

\* Line 355: compression_func(new_file_path, compress_method) for an image.
CompressImage ==
  /\ pc = "compress"
  /\ ~compress_method.none
  /\ compression_func = "compress_image"
  /\ \E tinify \in TinifyEnvs :
       Called("compress_image", compress_image(fs, new_file_path, compress_method.s, tinify))
  /\ UNCHANGED <<env_vars, dirs, config_vars, files, i, file_vars>>

\* Lines 356-357: the size after a compression that returned True.
SizeCompressed ==
  /\ pc = "size_compressed"
  /\ IF Exists(fs, dirs, new_file_path)
     THEN /\ pc' = "blank"
          /\ Say("Size after compression")
          /\ UNCHANGED exception
     ELSE /\ Raise("FileNotFoundError")
          /\ UNCHANGED trace
  /\ UNCHANGED <<env_vars, fs, dirs, config_vars, files, i, file_vars>>

\* A loop that does not step to the next element.
NextFile_no_advance ==
  /\ pc = "blank"
  /\ Say("")
  /\ i' = i
  /\ pc' = "size_original"
  /\ UNCHANGED <<env_vars, fs, dirs, config_vars, files, file_vars, exception>>

\* A loop over a live scan: what now lies below the input folder and is not
\* in the list yet is appended to it.
NextFile_rescan ==
  /\ pc = "blank"
  /\ Say("")
  /\ \E found \in scan_folder(fs, dirs, input_folder) :
       files' = files \o SelectSeq(found, LAMBDA p : \A k \in DOMAIN files : files[k] # p)
  /\ i' = i + 1
  /\ pc' = IF i + 1 > Len(files') THEN "complete" ELSE "size_original"
  /\ UNCHANGED <<env_vars, fs, dirs, config_vars, file_vars, exception>>

\* Line 360 and the loop's next iteration (line 317).
NextFile ==
  /\ pc = "blank"
  /\ Say("")
  /\ i' = i + 1
  /\ pc' = IF i + 1 > Len(files) THEN "complete" ELSE "size_original"
  /\ UNCHANGED <<env_vars, fs, dirs, config_vars, files, file_vars, exception>>

\* Line 362
Complete ==
  /\ pc = "complete"
  /\ Say("All files processed. Agent work completed.")
  /\ pc' = "done"
  /\ UNCHANGED <<env_vars, fs, dirs, config_vars, files, i, file_vars, exception>>

Next ==
  \/ LoadConfig
  \/ GetPaths
  \/ Scan
  \/ SizeOriginal
  \/ Move
  \/ SizeMoved
  \/ Select
  \/ ResolveMethod
  \/ SkipCompression
  \/ CompressPdf
  \/ CompressImage
  \/ SizeCompressed
  \/ NextFile
  \/ Complete

Spec == Init /\ [][Next]_vars

\* ------------------------------------------------------------------------
\* Classification alone: get_file_category applied to drawn paths
\* ------------------------------------------------------------------------

StemChars == {"a", EXTSEP, SEP}

\* What is put in front of an extension: directories, names, leading dots.
Stems == UNION {[1..n -> StemChars] : n \in 0..MaxStemLen}

\* The ends of the drawn paths: nothing, the nine listed extensions, an
\* unlisted extension and a listed one without its dot.
Suffixes ==
  { <<>>, EXT_PDF, EXT_PNG, EXT_JPG, EXT_JPEG, EXT_PY, EXT_JS, EXT_JAVA, EXT_C, EXT_CPP,
    <<".", "t", "x", "t">>, <<"p", "d", "f">> }

\* Every way of writing s with some of its letters in upper case
CaseVariants(s) ==
  {[k \in DOMAIN s |-> IF k \in M THEN UpperChar(s[k]) ELSE s[k]] : M \in SUBSET DOMAIN s}

\* Pairs of paths made of one stem and two spellings of one suffix, the
\* second spelling all in lower case or all in upper case
ClassifyInputs ==
  UNION {{<<stem \o v, stem \o w>> :
            v \in CaseVariants(suffix), w \in {suffix, [k \in DOMAIN suffix |-> UpperChar(suffix[k])]}} :
           stem \in Stems, suffix \in Suffixes}

InitClassify ==
  /\ arg_path \in ClassifyInputs
  /\ ret_category = <<>>
  /\ pc = "classify"
  /\ yml_agent = PyNone
  /\ yml_file_manager = FmNone
  /\ fs = <<>>
  /\ dirs = {}
  /\ fs0 = <<>>
  /\ dirs0 = {}
  /\ agent_config = Unloaded
  /\ file_manager_config = FmUnloaded
  /\ input_folder = <<>>
  /\ output_folder = <<>>
  /\ files = <<>>
  /\ i = 0
  /\ new_file_path = <<>>
  /\ category = <<>>
  /\ compression_func = "None"
  /\ compress_method = NoMethod
  /\ exception = ""
  /\ trace = <<>>

\* get_file_category is called on both paths of the pair.
Classify ==
  /\ pc = "classify"
  /\ ret_category' = <<get_file_category(arg_path[1]), get_file_category(arg_path[2])>>
  /\ pc' = "classified"
  /\ UNCHANGED <<yml_agent, yml_file_manager, fs, dirs, fs0, dirs0, config_vars, files, i,
                 file_vars, exception, trace, arg_path>>

NextClassify == Classify

SpecClassify == InitClassify /\ [][NextClassify]_vars

\* ------------------------------------------------------------------------
\* What the documentation says, stated without the code's operators
\* ------------------------------------------------------------------------

\* The extension of a path: the end of its last component from that
\* component's last dot on, provided something other than dots precedes
\* the dot; otherwise empty.
ExtensionOf(p) ==
  LET name == Basename(p)
      dots == {k \in DOMAIN name : name[k] = "."}
      last == CHOOSE k \in dots : \A d \in dots : d <= k
  IN  IF dots # {} /\ \E j \in 1..(last - 1) : name[j] # "."
      THEN From(name, last)
      ELSE <<>>

\* The documented table, on a lower-case extension
DocumentedCategory(ext) ==
  CASE ext = <<".", "p", "d", "f">> -> <<"P", "D", "F", "s">>
    [] ext \in {<<".", "p", "n", "g">>, <<".", "j", "p", "g">>, <<".", "j", "p", "e", "g">>}
         -> <<"I", "m", "a", "g", "e", "s">>
    [] ext \in {<<".", "p", "y">>, <<".", "j", "s">>, <<".", "j", "a", "v", "a">>, <<".", "c">>,
                <<".", "c", "p", "p">>}
         -> <<"C", "o", "d", "e">>
    [] OTHER -> <<"O", "t", "h", "e", "r", "s">>

CategoryOf(p) == DocumentedCategory(Lower(ExtensionOf(p)))

\* ------------------------------------------------------------------------
\* Claims
\* ------------------------------------------------------------------------

\* C3: get_file_category always returns one of the four categories, the one
\* the documented table gives for the lower-cased extension of the path
\* (Others for an unlisted or missing extension), so two paths whose
\* extensions differ only in letter case receive the same category.
C3_CategoryByLowercasedExtension ==
  pc = "classified" =>
    /\ ret_category[1] \in Categories
    /\ ret_category[1] = CategoryOf(arg_path[1])
    /\ ret_category[2] = CategoryOf(arg_path[2])
    /\ ret_category[1] = ret_category[2]

\* C3 witness: FILE.PDF-like and file.pdf-like spellings have been
\* classified, both as PDFs.
C3_Witness ==
  /\ pc = "classified"
  /\ arg_path[1] = <<"a", ".", "P", "D", "F">>
  /\ arg_path[2] = <<"a", ".", "p", "d", "f">>
  /\ ret_category = <<CAT_PDFS, CAT_PDFS>>

\* Helpers of the claims about main()

Terminated == pc \in {"done", "exited", "crashed"}

HasEvent(ev, k) == \E n \in DOMAIN trace : trace[n] = [ev |-> ev, i |-> k]

CompressCalls == {"compress_pdf", "compress_image"}

Compressible == {<<"P", "D", "F", "s">>, <<"I", "m", "a", "g", "e", "s">>}

LastEvent == trace[Len(trace)]

\* Where move_file_to_category is documented to put a file
DestinationOf(p) == Join(Join(output_folder, CategoryOf(p)), Basename(p))

\* Document A is not of the documented shape: not loaded, or no mapping.
MalformedAgentDocument(doc) == doc.t # "dict"

\* Document B is not of the documented shape: not loaded, no mapping, or a
\* compression_method that is no list of single-key mappings.
MalformedFileManagerDocument(doc) ==
  \/ doc.t # "dict"
  \/ doc.has_cm /\ doc.cm.t # "list"
  \/ doc.has_cm /\ \E k \in DOMAIN doc.cm.items : doc.cm.items[k].t # "dict"

\* C1: when either configuration document is missing, unparsable or not of
\* the documented shape, the run ends with no file moved and no folder
\* created (stated for the runs in which the environment refuses nothing).
C1_BadConfigurationTouchesNothing ==
  (/\ Terminated
   /\ exception # "PermissionError"
   /\ MalformedAgentDocument(yml_agent) \/ MalformedFileManagerDocument(yml_file_manager))
    => (fs = fs0 /\ dirs = dirs0)

\* C2: no call of compress_pdf or compress_image on a file ends the run: a
\* call that fails prints its failure and returns False, and main() goes on.
C2_FailedCompressionNeverAborts ==
  ~(/\ pc = "crashed"
    /\ trace # <<>>
    /\ LastEvent.ev \in CompressCalls
    /\ LastEvent.i = i
    /\ new_file_path \in DOMAIN fs)

C5_OnlyPdfsAndImagesCompressed ==
  [][/\ \A n \in DOMAIN trace' :
          trace'[n].ev \in CompressCalls => CategoryOf(files'[trace'[n].i]) \in Compressible
     /\ (pc # "move" /\ (fs' # fs \/ dirs' # dirs)) => CategoryOf(file_path) \in Compressible]_vars

\* C5 witness: a run configured with a PDF method has ended normally after
\* processing a Code file, which lies in the Code folder with the content it
\* had.
C5_Witness ==
  /\ pc = "done"
  /\ \E n \in DOMAIN file_manager_config.cm.items : file_manager_config.cm.items[n].k = "PDF"
  /\ \E k \in DOMAIN files :
       /\ CategoryOf(files[k]) = <<"C", "o", "d", "e">>
       /\ HasEvent("", k)
       /\ DestinationOf(files[k]) \in DOMAIN fs
       /\ fs[DestinationOf(files[k])] = fs0[files[k]]

\* The key main() looks up for a compressible file
SubtypeKey(p) ==
  CASE Lower(ExtensionOf(p)) = <<".", "p", "d", "f">> -> "PDF"
    [] Lower(ExtensionOf(p)) = <<".", "p", "n", "g">> -> "PNG"
    [] Lower(ExtensionOf(p)) \in {<<".", "j", "p", "g">>, <<".", "j", "p", "e", "g">>} -> "JPG"
    [] OTHER -> ""

\* The loaded document B is a mapping whose compression_method list (empty
\* when the key is absent) is made of single-key mappings, none keyed key.
NoEntryKeyed(key) ==
  /\ file_manager_config.t = "dict"
  /\ file_manager_config.has_cm =>
       /\ file_manager_config.cm.t = "list"
       /\ \A k \in DOMAIN file_manager_config.cm.items :
            /\ file_manager_config.cm.items[k].t = "dict"
            /\ file_manager_config.cm.items[k].k # key

\* The file at position k has got past its move.
Relocated(k) == HasEvent("Size after moving", k)

\* C6: for a PDF, JPG or PNG file whose subtype has no entry in the
\* compression_method list, no compression function is called and no size
\* after compression is printed, nothing is raised after the file's move,
\* and the run goes on to the next file.
C6_NoEntryNoCompression ==
  \A k \in DOMAIN files :
    (Relocated(k) /\ SubtypeKey(files[k]) # "" /\ NoEntryKeyed(SubtypeKey(files[k]))) =>
      /\ \A n \in DOMAIN trace : trace[n].i = k => trace[n].ev \notin CompressCalls
      /\ ~HasEvent("Size after compression", k)
      /\ ~(pc = "crashed" /\ i = k)
      /\ (i = k /\ pc \notin {"select", "method", "blank"}) => (pc = "compress" /\ compress_method.none)

\* C6 witness: a PNG has been processed under a configuration whose only
\* entry is keyed JPG, and the run has ended normally.
C6_Witness ==
  /\ pc = "done"
  /\ file_manager_config = FmDict(TRUE, CmList(<<Entry("JPG", ZIP)>>))
  /\ \E k \in DOMAIN files :
       /\ Lower(ExtensionOf(files[k])) = <<".", "p", "n", "g">>
       /\ HasEvent("", k)
       /\ k < Len(files)

\* Two different positions of the scan whose files have one destination
SameDestination(j, k) ==
  /\ j < k
  /\ Basename(files[j]) = Basename(files[k])
  /\ CategoryOf(files[j]) = CategoryOf(files[k])

\* The file at position k has just been moved, after the one at position j.
SecondJustMoved(j, k) ==
  /\ i = k
  /\ pc = "size_moved"
  /\ SameDestination(j, k)
  /\ HasEvent("Moved", j)

\* The content that came from the file the scan found at path p lies nowhere.
Gone(p) == \A q \in DOMAIN fs : fs[q].id # fs0[p].id

OrdinaryCollision(j, k) ==
  /\ files[j] # DestinationOf(files[j])
  /\ files[k] # DestinationOf(files[k])
  /\ DestinationOf(files[k]) \notin dirs

CrashedInMove ==
  /\ pc = "crashed"
  /\ trace # <<>>
  /\ LastEvent = [ev |-> "Original size", i |-> i]

\* C8: an exception raised by a move ends the run at once and undoes
\* nothing: every file before the failing one has been moved and its
\* destination still exists; the failing file and the files after it are
\* still where the scan found them, none of them has a move or a
\* compression call on record; the completion message is not printed.
C8_MoveFaultAbortsWithoutRollback ==
  /\ exception # "" => pc = "crashed"
  /\ CrashedInMove =>
       /\ \A j \in 1..(i - 1) :
            HasEvent("Moved", j) /\ Exists(fs, dirs, DestinationOf(files[j]))
       /\ \A k \in i..Len(files) :
            /\ files[k] \in DOMAIN fs
            /\ \A n \in DOMAIN trace :
                 trace[n].i = k => trace[n].ev \notin CompressCalls \cup {"Moved"}
       /\ \A n \in DOMAIN trace : trace[n].ev # "All files processed. Agent work completed."

\* C8 witness: the move of the second discovered file has failed after the
\* first was moved.
C8_Witness ==
  /\ CrashedInMove
  /\ i = 2
  /\ HasEvent("Moved", 1)
  /\ files[1] \notin DOMAIN fs
  /\ files[2] \in DOMAIN fs

\* The place of a line or call in the processing of one file
StageRank(ev) ==
  CASE ev = "Original size" -> 1
    [] ev = "Moved" -> 2
    [] ev = "Size after moving" -> 3
    [] ev = "Decision" -> 4
    [] ev \in CompressCalls -> 5
    [] ev \in {"compression successful", "compression failed", "unsupported method",
               "tinify not installed"} -> 6
    [] ev = "Size after compression" -> 7
    [] ev = "" -> 8
    [] OTHER -> 0

\* C9: what the run prints and calls is ordered by file, in scan order, and
\* within a file by stage: original size, move, size after the move,
\* decision, compression call, its result, size after compression, blank
\* line; nothing of a file happens twice, nothing of a later file happens
\* before the blank line of the file before it, and a stage of a file
\* happens only after the stages before it that are not optional.
C9_OneFileAtATimeInStageOrder ==
  /\ \A n \in 1..(Len(trace) - 1) :
       \/ trace[n].i < trace[n + 1].i /\ (trace[n].ev = "" \/ trace[n].i = 0)
       \/ trace[n].i = trace[n + 1].i /\ StageRank(trace[n].ev) < StageRank(trace[n + 1].ev)
  /\ \A n \in DOMAIN trace :
       /\ StageRank(trace[n].ev) > 0 => trace[n].i \in DOMAIN files
       /\ StageRank(trace[n].ev) > 1 => HasEvent("Original size", trace[n].i)
       /\ StageRank(trace[n].ev) > 2 => HasEvent("Moved", trace[n].i)
       /\ StageRank(trace[n].ev) > 4 => HasEvent("Decision", trace[n].i)
       /\ trace[n].ev = "All files processed. Agent work completed." => n = Len(trace)

\* C9 witness: two files have been processed to the end, the first one
\* through a compression call.
C9_Witness ==
  /\ pc = "done"
  /\ Len(files) = 2
  /\ \E n \in DOMAIN trace : trace[n].i = 1 /\ trace[n].ev \in CompressCalls
  /\ HasEvent("", 2)

\* How far main() has got
PcRank(p) ==
  CASE p = "load" -> 0
    [] p = "paths" -> 1
    [] p = "scan" -> 2
    [] p = "size_original" -> 3
    [] p = "move" -> 4
    [] p = "size_moved" -> 5
    [] p = "select" -> 6
    [] p = "method" -> 7
    [] p = "compress" -> 8
    [] p = "size_compressed" -> 9
    [] p = "blank" -> 10
    [] p = "complete" -> 11
    [] OTHER -> 12

Scanned == pc \notin {"load", "paths", "scan"}

\* Both documents are of the documented shape and not empty.
ValidConfiguration ==
  /\ Truthy(yml_agent)
  /\ ~MalformedAgentDocument(yml_agent)
  /\ ~MalformedFileManagerDocument(yml_file_manager)

FilesystemOrNetworkFaults ==
  {"PermissionError", "FileExistsError", "NotADirectoryError", "FileNotFoundError",
   "shutil.Error", "OSError", "RequestException"}

\* The files below the scanned folder when the run started
Below(folder) == {p \in DOMAIN fs0 : folder \in Ancestors(p)}

\* The list is the result of the one scan and is never changed afterwards;
\* every step takes main() to a later file or to a later place of the same
\* file, so that a run of n files takes at most 4 + 8 * n steps and cannot
\* loop.
OneScanAndProgress ==
  /\ [](Scanned =>
          /\ {files[k] : k \in DOMAIN files} = Below(input_folder)
          /\ \A j, k \in DOMAIN files : j # k => files[j] # files[k]
          /\ i <= Len(files) + 1
          /\ (PcRank(pc) < PcRank("complete")) => i \in DOMAIN files)
  /\ [][(Scanned => files' = files)
        /\ (i' > i \/ (i' = i /\ PcRank(pc') > PcRank(pc)))]_vars

\* With a valid configuration only a filesystem or network fault ends the
\* run early; a run that ends normally has printed the completion message
\* last and has moved every path of the list exactly once.
EndsComplete ==
  [](/\ (pc = "crashed" /\ ValidConfiguration) => exception \in FilesystemOrNetworkFaults
     /\ (pc = "exited") => ~ValidConfiguration
     /\ pc = "done" =>
          /\ LastEvent.ev = "All files processed. Agent work completed."
          /\ \A k \in DOMAIN files :
               Cardinality({n \in DOMAIN trace : trace[n] = [ev |-> "Moved", i |-> k]}) = 1)

\* C10 as claimed: in addition, a file the run has put below the scanned
\* folder is never processed again: whenever the processing of a path
\* starts, the file there is the one the scan found, not one moved there.
C10_NothingProcessedAgain ==
  (pc \in {"size_original", "move"} /\ file_path \in DOMAIN fs) =>
    fs[file_path].id = fs0[file_path].id

\* C10 amended: the list of files is fixed by one scan before the loop, so
\* with a valid configuration and no filesystem or network fault main()
\* ends with the completion message after moving each discovered path
\* exactly once; a path the run creates is never added to the list (a file
\* moved onto a discovered path that is still to come is processed again
\* under that path).
C10_OneScanEachPathOnce == OneScanAndProgress /\ EndsComplete

\* C10 witness: a run with the output folder below the scanned folder has
\* ended normally, the moved file lying below the scanned folder at a path
\* that is not in the list.
C10_Witness ==
  /\ pc = "done"
  /\ ValidConfiguration
  /\ input_folder \in Ancestors(output_folder)
  /\ \E p \in DOMAIN fs :
       /\ input_folder \in Ancestors(p)
       /\ \A k \in DOMAIN files : files[k] # p

====
